---------------------------- MODULE Spec2Model ----------------------------
(***************************************************************************)
(* BiSeNetv1 (models/bisenetv1.py): construction of the network from its   *)
(* arguments and one forward pass, at the level of tensor shapes, tensor   *)
(* storage (which statement allocates, which writes in place) and the      *)
(* dataflow of values.  A second part evaluates the two attention modules  *)
(* on small tensors in fixed-point arithmetic.                             *)
(***************************************************************************)
EXTENDS Integers, Sequences, FiniteSets, TLC

VARIABLES
    pc,         \* position in BiSeNetv1.__init__ / BiSeNetv1.forward
    args,       \* the constructor's arguments
    net,        \* the sub-modules built so far
    training,   \* nn.Module.training of the model
    exc,        \* the exception that ended construction or forward
    hubCalls,   \* how many torchvision networks have been instantiated
    heap,       \* tensor storage: one cell per allocating statement
    env,        \* local variables of the forward frames: name -> cell
    pcS,        \* position inside spatial_path(x)
    pcC,        \* position inside context_path(x)
    tracked,    \* num_batches_tracked of the BatchNorm layers, per module
    cat,        \* operands of torch.cat in FeatureFusionModule.forward
    npc,        \* position in the small-tensor evaluation
    nmod,       \* the module evaluated on small tensors
    nw,         \* its weights
    nin,        \* its input tensors
    nt          \* its local tensors

vars == <<pc, args, net, training, exc, hubCalls, heap, env, pcS, pcC,
          tracked, cat, npc, nmod, nw, nin, nt>>

shapeVars == <<pc, args, net, training, exc, hubCalls, heap, env, pcS, pcC,
               tracked, cat>>

numVars == <<npc, nmod, nw, nin, nt>>

-----------------------------------------------------------------------------
(* Bounds of the model.                                                    *)

MaxChannel == 3
MaxClass == 2
MaxBatch == 2
MaxMul == 2
MaxSide == 2
Unit == 4

-----------------------------------------------------------------------------
(* Strings are sequences of one-character strings, so that Python's        *)
(* substring test `a in b` and dictionary lookup are computed.             *)

resnet18 == <<"r","e","s","n","e","t","1","8">>
resnet34 == <<"r","e","s","n","e","t","3","4">>
resnet50 == <<"r","e","s","n","e","t","5","0">>
resnet101 == <<"r","e","s","n","e","t","1","0","1">>
resnet152 == <<"r","e","s","n","e","t","1","5","2">>

\* 'resnet', '18' and '34': the literals of ContextPath.__init__
LitResnet == <<"r","e","s","n","e","t">>
Lit18 == <<"1","8">>
Lit34 == <<"3","4">>

\* backbone_type arguments tried: the five supported names and names that
\* are not supported, with and without the substring 'resnet'
BackboneTypes ==
    { resnet18, resnet34, resnet50, resnet101, resnet152,
      <<"r","e","s","n","e","t","9">>,
      <<"r","e","s","n","e","t">>,
      <<"r","e","s","n","e","t","1","8","1">>,
      <<"m","y","r","e","s","n","e","t","3","4">>,
      <<"w","i","d","e","_","r","e","s","n","e","t","5","0","_","2">>,
      <<"v","g","g","1","6">>,
      <<"r","e","s","n","e","x","t","5","0">>,
      <<"R","e","s","N","e","t","1","8">>,
      <<"m","o","b","i","l","e","n","e","t">>,
      <<>> }

\* Python `sub in s` for strings
Contains(sub, s) ==
    \E i \in 0..(Len(s) - Len(sub)) : SubSeq(s, i + 1, i + Len(sub)) = sub

\* the keys of resnet_hub
ResnetHubKeys == { resnet18, resnet34, resnet50, resnet101, resnet152 }

\* torchvision.models.resnetNN: the block each variant is built from
\* (BasicBlock.expansion = 1, Bottleneck.expansion = 4)
HubExpansion(resnet_type) ==
    IF resnet_type \in { resnet18, resnet34 } THEN 1 ELSE 4

\* resnet_hub[resnet_type](pretrained): the channel counts out of the stem
\* and the four stages of torchvision's ResNet (planes 64, 128, 256, 512
\* times the block's expansion), and its 3-channel stem convolution
HubResNet(resnet_type) ==
    [ built   |-> TRUE,
      in_ch   |-> 3,
      stem_ch |-> 64,
      layer1  |-> 64 * HubExpansion(resnet_type),
      layer2  |-> 128 * HubExpansion(resnet_type),
      layer3  |-> 256 * HubExpansion(resnet_type),
      layer4  |-> 512 * HubExpansion(resnet_type) ]

\* the lookup done by substring instead of by key
ResNetSupported_BySubstring(resnet_type) ==
    \E k \in ResnetHubKeys : Contains(k, resnet_type)

\* ResNet.__init__: the lookup that guards the instantiation
ResNetSupported(resnet_type) == resnet_type \in ResnetHubKeys

\* the family test on 'res' instead of 'resnet'
IsResnetFamily_ShortLiteral(backbone_type) ==
    Contains(<<"r","e","s">>, backbone_type)

\* ContextPath.__init__: the family test
IsResnetFamily(backbone_type) == Contains(LitResnet, backbone_type)

\* the channel pair with the test for '34' forgotten
ChannelPair_Only18(backbone_type) ==
    IF Contains(Lit18, backbone_type) THEN <<256, 512>> ELSE <<1024, 2048>>

\* ContextPath.__init__: the channel pair (channels[0], channels[1])
ChannelPair(backbone_type) ==
    IF Contains(Lit18, backbone_type) \/ Contains(Lit34, backbone_type)
    THEN <<256, 512>>
    ELSE <<1024, 2048>>

-----------------------------------------------------------------------------
(* Tensors: a shape <<B, C, H, W>> and the value as a term over the input  *)
(* (a tuple <<operation, operand, ...>>), so that two tensors are equal    *)
(* exactly when they were computed the same way from the same data.        *)

T(shape, val) == [shape |-> shape, val |-> val]

NoTensor == [shape |-> <<>>, val |-> <<>>]

\* a layer's result: the tensor it returns, or the exception it raises
Ok(t) == [exc |-> "none", t |-> t]

Raise(e) == [exc |-> e, t |-> NoTensor]

\* sequential composition inside one forward: after the result r comes
\* the result rest (computed from r.t), unless r raised
Then(r, rest) == IF r.exc # "none" THEN r ELSE rest

\* torch.nn.Conv2d / MaxPool2d output size along one axis
ConvOut(h, k, s, p) == ((h + 2 * p - k) \div s) + 1

\* torch.nn.Conv2d: the input must have the layer's in_channels
Conv2d(name, cin, cout, k, s, p, t) ==
    IF t.shape[2] # cin \/ t.shape[3] + 2 * p < k \/ t.shape[4] + 2 * p < k
    THEN Raise("RuntimeError")
    ELSE Ok(T(<<t.shape[1], cout, ConvOut(t.shape[3], k, s, p),
                ConvOut(t.shape[4], k, s, p)>>, <<name, t.val>>))

\* torch.nn.BatchNorm2d: in training mode the batch statistics need more
\* than one value per channel
BatchNorm2d(t, train) ==
    IF train /\ t.shape[1] * t.shape[3] * t.shape[4] = 1
    THEN Raise("ValueError")
    ELSE Ok(t)

\* modules.ConvBNAct(in, out, kernel, stride): convolution padded by
\* (kernel - 1) // 2, batch normalisation, activation
ConvBNAct(name, cin, cout, k, s, t, train) ==
    LET c == Conv2d(name, cin, cout, k, s, (k - 1) \div 2, t) IN
      Then(c, BatchNorm2d(c.t, train))

\* modules.conv1x1(in, out): a 1x1 convolution, no normalisation
conv1x1(name, cin, cout, t) == Conv2d(name, cin, cout, 1, 1, 0, t)

\* nn.AdaptiveAvgPool2d(1)
AdaptiveAvgPool2d(t) ==
    T(<<t.shape[1], t.shape[2], 1, 1>>, <<"pool", t.val>>)

\* the upsampling of ContextPath applied to the height only
InterpolateScale2_HeightOnly(t) ==
    T(<<t.shape[1], t.shape[2], 2 * t.shape[3], t.shape[4]>>, <<"up2", t.val>>)

\* F.interpolate(t, scale_factor=2, mode='bilinear', align_corners=True)
InterpolateScale2(t) ==
    T(<<t.shape[1], t.shape[2], 2 * t.shape[3], 2 * t.shape[4]>>,
      <<"up2", t.val>>)

\* the final interpolation to (size[0], size[0]): the width forgotten
InterpolateSize_HeightTwice(t, size) ==
    T(<<t.shape[1], t.shape[2], size[1], size[1]>>, <<"resize", t.val>>)

\* F.interpolate(t, size, mode='bilinear', align_corners=True)
InterpolateSize(t, size) ==
    T(<<t.shape[1], t.shape[2], size[1], size[2]>>, <<"resize", t.val>>)

\* whether src broadcasts to the shape dst (each axis equal, or 1 in src)
BroadcastsTo(src, dst) ==
    \A i \in 1..4 : src[i] = dst[i] \/ src[i] = 1

\* a.expand_as(b)
ExpandAs(a, b) ==
    IF BroadcastsTo(a.shape, b.shape)
    THEN Ok(T(b.shape, a.val))
    ELSE Raise("RuntimeError")

\* a * b, out of place (both of one shape here)
Mul(a, b) ==
    IF a.shape = b.shape
    THEN Ok(T(a.shape, <<"mul", a.val, b.val>>))
    ELSE Raise("RuntimeError")

\* a + b, out of place
Add(a, b) ==
    IF a.shape = b.shape
    THEN Ok(T(a.shape, <<"add", a.val, b.val>>))
    ELSE Raise("RuntimeError")

\* dst += src: the result must have the shape of dst
IAdd(dst, src) ==
    IF BroadcastsTo(src.shape, dst.shape)
    THEN Ok(T(dst.shape, <<"add", dst.val, src.val>>))
    ELSE Raise("RuntimeError")

\* torch.cat([a, b], dim=1)
Cat(a, b) ==
    IF a.shape[1] = b.shape[1] /\ a.shape[3] = b.shape[3]
       /\ a.shape[4] = b.shape[4]
    THEN Ok(T(<<a.shape[1], a.shape[2] + b.shape[2], a.shape[3], a.shape[4]>>,
              <<"cat", a.val, b.val>>))
    ELSE Raise("RuntimeError")

-----------------------------------------------------------------------------
(* The sub-modules' forward functions.                                     *)

\* one stage of torchvision's ResNet (layer1..layer4): stride-s 3x3
\* convolution with padding 1 on the main path, batch normalisation
ResNetStage(name, cin, cout, s, t, train) ==
    ConvBNAct(name, cin, cout, 3, s, t, train)

\* torchvision's stem: conv1 (7x7, stride 2, padding 3), bn1, relu,
\* maxpool (3x3, stride 2, padding 1)
ResNetStem(bb, t, train) ==
    LET c == Conv2d("conv1", bb.in_ch, bb.stem_ch, 7, 2, 3, t)
        n == Then(c, BatchNorm2d(c.t, train))
        u == n.t IN
      Then(n, Ok(T(<<u.shape[1], u.shape[2],
                     ConvOut(u.shape[3], 3, 2, 1),
                     ConvOut(u.shape[4], 3, 2, 1)>>,
                   <<"maxpool", u.val>>)))

\* ResNet.forward up to x3, the 1/16 map
ResNetX3(bb, t, train) ==
    LET s0 == ResNetStem(bb, t, train)
        s1 == Then(s0, ResNetStage("layer1", bb.stem_ch, bb.layer1, 1, s0.t, train))
        s2 == Then(s1, ResNetStage("layer2", bb.layer1, bb.layer2, 2, s1.t, train)) IN
      Then(s2, ResNetStage("layer3", bb.layer2, bb.layer3, 2, s2.t, train))

\* ResNet.forward: x, the 1/32 map, computed from x3
ResNetX(bb, x3, train) ==
    ResNetStage("layer4", bb.layer3, bb.layer4, 2, x3, train)

\* AttentionRefinementModule.forward of the module for `channels`
ARMForward(name, channels, x, train) ==
    LET e == ExpandAs(AdaptiveAvgPool2d(x), x)
        g == Then(e, ConvBNAct(name, channels, channels, 1, 1, e.t, train)) IN
      Then(g, Mul(x, g.t))

\* FeatureFusionModule.forward
FFMForward(m, x_low, x_high, train) ==
    LET c  == Cat(x_low, x_high)
        y  == Then(c, ConvBNAct("ffm.conv1", m.cin, m.cout, 3, 1, c.t, train))
        e  == Then(y, ExpandAs(AdaptiveAvgPool2d(y.t), y.t))
        g1 == Then(e, conv1x1("ffm.conv2.0", m.cout, m.cout, e.t))
        g2 == Then(g1, conv1x1("ffm.conv2.2", m.cout, m.cout,
                               T(g1.t.shape, <<"relu", g1.t.val>>)))
        xp == Then(g2, Mul(y.t, T(g2.t.shape, <<"sigmoid", g2.t.val>>))) IN
      Then(xp, Add(y.t, xp.t))

\* SegHead: ConvBNAct(in, hid, 3) then conv1x1(hid, out)
SegHeadForward(m, x, train) ==
    LET h == ConvBNAct("seg_head.0", m.cin, m.hid, 3, 1, x, train) IN
      Then(h, conv1x1("seg_head.1", m.hid, m.cout, h.t))

-----------------------------------------------------------------------------
(* State of construction and of one forward call.                          *)

\* input heights and widths tried: multiples of 32 and two others
Sizes == { 32 * k : k \in 1..MaxMul } \cup { 31, 40 }

\* the statements of forward that allocate a tensor, and the input
Cells == { "in", "sp0", "sp1", "sp2", "bb32", "bb16", "avg", "arm32",
           "conv32", "up32", "arm16", "conv16", "up16", "ffm", "head", "out" }

\* the modules that own BatchNorm layers
BNModules == { "spatial_path", "backbone", "arm_32", "arm_16", "ffm", "seg_head" }

NoModule == [built |-> FALSE]

EmptyEnv ==
    [ x |-> "none", size |-> <<>>, x_s |-> "none", x_c |-> "none",
      sp |-> "none", cx |-> "none",
      x_32 |-> "none", x_16 |-> "none", x_32_avg |-> "none" ]

\* the small-tensor evaluation at rest
NumIdle ==
    /\ npc = "idle"
    /\ nmod = "none"
    /\ nw = <<>>
    /\ nin = <<>>
    /\ nt = <<>>

\* BiSeNetv1(num_class, n_channel, backbone_type) is called: nothing built
Init ==
    /\ pc = "L18"
    /\ args \in [ num_class : 1..MaxClass, n_channel : 1..MaxChannel,
                  backbone_type : BackboneTypes ]
    /\ net = [ spatial_path |-> NoModule, context_path |-> NoModule,
               ffm |-> NoModule, seg_head |-> NoModule ]
    /\ training = TRUE
    /\ exc = "none"
    /\ hubCalls = 0
    /\ heap = [ c \in Cells |-> NoTensor ]
    /\ env = EmptyEnv
    /\ pcS = "idle"
    /\ pcC = "idle"
    /\ tracked = [ m \in BNModules |-> 0 ]
    /\ cat = <<>>
    /\ NumIdle

\* an exception leaves __init__ or forward
Raised(e) ==
    /\ pc' = "raised"
    /\ exc' = e

-----------------------------------------------------------------------------
(* BiSeNetv1.__init__                                                      *)

\* self.spatial_path = SpatialPath(n_channel, 128, act_type)
NewSpatialPath ==
    /\ pc = "L18"
    /\ net' = [net EXCEPT !.spatial_path =
                 [built |-> TRUE, cin |-> args.n_channel, cout |-> 128]]
    /\ pc' = "L19"
    /\ UNCHANGED <<args, training, exc, hubCalls, heap, env, pcS, pcC,
                   tracked, cat, numVars>>

\* ContextPath.__init__ with ResNet.__init__: the outcome of line 19
ContextPathInit(out_channels, backbone_type) ==
    IF IsResnetFamily(backbone_type)
    THEN IF ResNetSupported(backbone_type)
         THEN [ exc |-> "none", hub |-> 1,
                m |-> [ built |-> TRUE,
                        backbone |-> HubResNet(backbone_type),
                        channels |-> ChannelPair(backbone_type),
                        cout |-> out_channels ] ]
         ELSE [ exc |-> "ValueError", hub |-> 0, m |-> NoModule ]
    ELSE [ exc |-> "NotImplementedError", hub |-> 0, m |-> NoModule ]

\* self.context_path = ContextPath(256, backbone_type, act_type)
NewContextPath ==
    /\ pc = "L19"
    /\ LET r == ContextPathInit(256, args.backbone_type) IN
         /\ hubCalls' = hubCalls + r.hub
         /\ IF r.exc = "none"
            THEN /\ net' = [net EXCEPT !.context_path = r.m]
                 /\ pc' = "L20"
                 /\ exc' = exc
            ELSE /\ Raised(r.exc)
                 /\ net' = net
    /\ UNCHANGED <<args, training, heap, env, pcS, pcC, tracked, cat, numVars>>

\* self.ffm = FeatureFusionModule(384, 256, act_type)
NewFFM ==
    /\ pc = "L20"
    /\ net' = [net EXCEPT !.ffm = [built |-> TRUE, cin |-> 384, cout |-> 256]]
    /\ pc' = "L21"
    /\ UNCHANGED <<args, training, exc, hubCalls, heap, env, pcS, pcC,
                   tracked, cat, numVars>>

\* self.seg_head = SegHead(256, num_class, act_type), hid_channels = 128
NewSegHead ==
    /\ pc = "L21"
    /\ net' = [net EXCEPT !.seg_head =
                 [built |-> TRUE, cin |-> 256, hid |-> 128,
                  cout |-> args.num_class]]
    /\ pc' = "built"
    /\ UNCHANGED <<args, training, exc, hubCalls, heap, env, pcS, pcC,
                   tracked, cat, numVars>>

\* model.eval(), inherited from nn.Module
Eval ==
    /\ pc = "built"
    /\ training
    /\ training' = FALSE
    /\ UNCHANGED <<pc, args, net, exc, hubCalls, heap, env, pcS, pcC,
                   tracked, cat, numVars>>

-----------------------------------------------------------------------------
(* BiSeNetv1.forward                                                       *)

\* the BatchNorm layers of module m count the batch in training mode,
\* unless the convolution before them has raised (result r)
Track(m, r) ==
    tracked' = IF training /\ r.exc # "RuntimeError"
               THEN [tracked EXCEPT ![m] = @ + 1]
               ELSE tracked

\* model(x) is called with a tensor of shape (b, c, h, w);
\* line 24: size = x.size()[2:]; the two branches receive x
Forward ==
    /\ pc = "built"
    /\ \E b \in 1..MaxBatch, c \in 1..MaxChannel, h \in Sizes, w \in Sizes :
         /\ heap' = [heap EXCEPT !["in"] = T(<<b, c, h, w>>, <<"x">>)]
         /\ env' = [env EXCEPT !.x = "in", !.size = <<h, w>>,
                               !.sp = "in", !.cx = "in"]
    /\ pc' = "L25_26"
    /\ pcS' = "0"
    /\ pcC' = "L60"
    /\ UNCHANGED <<args, net, training, exc, hubCalls, tracked, cat, numVars>>

\* `var = f(var)` done in place: the result overwrites the cell var is bound to
AssignNew_InPlace(r, cell, var) ==
    IF r.exc = "none"
    THEN /\ heap' = [heap EXCEPT ![env[var]] = r.t]
         /\ UNCHANGED <<env, pc, exc>>
    ELSE /\ pc' = "raised"
         /\ exc' = r.exc
         /\ UNCHANGED <<heap, env>>

\* the branch statement `var = f(...)`: the result r goes to a new cell
\* that var is bound to, or the exception of r leaves forward
AssignNew(r, cell, var) ==
    IF r.exc = "none"
    THEN /\ heap' = [heap EXCEPT ![cell] = r.t]
         /\ env' = [env EXCEPT ![var] = cell]
         /\ UNCHANGED <<pc, exc>>
    ELSE /\ Raised(r.exc)
         /\ UNCHANGED <<heap, env>>

\* the branch statement `var += ...`: the result r overwrites var's cell
AssignInPlace(r, var) ==
    IF r.exc = "none"
    THEN /\ heap' = [heap EXCEPT ![env[var]] = r.t]
         /\ UNCHANGED <<env, pc, exc>>
    ELSE /\ Raised(r.exc)
         /\ UNCHANGED <<heap, env>>

\* the three ConvBNAct of SpatialPath (stride 2, kernel 3)
SpatialLayer(i) ==
    [ name |-> <<"spatial_path.0", "spatial_path.1", "spatial_path.2">>[i + 1],
      cin  |-> IF i = 0 THEN net.spatial_path.cin ELSE net.spatial_path.cout,
      cout |-> net.spatial_path.cout,
      cell |-> <<"sp0", "sp1", "sp2">>[i + 1],
      from |-> <<"0", "1", "2">>[i + 1],
      to   |-> <<"1", "2", "ret">>[i + 1] ]

\* line 25, x_s = self.spatial_path(x): nn.Sequential runs layer i
SpatialStep ==
    /\ pc = "L25_26"
    /\ \E i \in 0..2 :
         LET l == SpatialLayer(i) IN
           /\ pcS = l.from
           /\ LET r == ConvBNAct(l.name, l.cin, l.cout, 3, 2, heap[env.sp], training) IN
                /\ AssignNew(r, l.cell, "sp")
                /\ Track("spatial_path", r)
                /\ pcS' = l.to
    /\ UNCHANGED <<args, net, training, hubCalls, pcC, cat, numVars>>

\* what a statement of ContextPath.forward leaves alone
CtxFrame == UNCHANGED <<args, net, training, hubCalls, pcS, cat, numVars>>

\* line 60: x_32, x_16 = self.backbone(x), ResNet.forward
Backbone ==
    /\ pc = "L25_26" /\ pcC = "L60"
    /\ LET bb == net.context_path.backbone
           r3 == ResNetX3(bb, heap[env.cx], training)
           r4 == Then(r3, ResNetX(bb, r3.t, training)) IN
         IF r4.exc = "none"
         THEN /\ heap' = [heap EXCEPT !["bb16"] = r3.t, !["bb32"] = r4.t]
              /\ env' = [env EXCEPT !.x_32 = "bb32", !.x_16 = "bb16"]
              /\ UNCHANGED <<pc, exc>>
         ELSE /\ Raised(r4.exc)
              /\ UNCHANGED <<heap, env>>
    /\ pcC' = "L61"
    /\ Track("backbone", ResNetStem(net.context_path.backbone, heap[env.cx], training))
    /\ CtxFrame

\* lines 61 and 62 exchanged: the pool is taken of the gated x_32
Pool32_OfGated ==
    /\ pc = "L25_26" /\ pcC = "L61"
    /\ LET g == ARMForward("arm_32", net.context_path.channels[2],
                         heap[env.x_32], training) IN
         AssignNew(Then(g, Ok(AdaptiveAvgPool2d(g.t))), "avg", "x_32_avg")
    /\ pcC' = "L62"
    /\ UNCHANGED tracked
    /\ CtxFrame

\* line 61: x_32_avg = self.pool(x_32)
Pool32 ==
    /\ pc = "L25_26" /\ pcC = "L61"
    /\ AssignNew(Ok(AdaptiveAvgPool2d(heap[env.x_32])), "avg", "x_32_avg")
    /\ pcC' = "L62"
    /\ UNCHANGED tracked
    /\ CtxFrame

\* line 62: x_32 = self.arm_32(x_32)
Arm32 ==
    /\ pc = "L25_26" /\ pcC = "L62"
    /\ AssignNew(ARMForward("arm_32", net.context_path.channels[2],
                            heap[env.x_32], training), "arm32", "x_32")
    /\ pcC' = "L63"
    /\ Track("arm_32", Ok(heap[env.x_32]))
    /\ CtxFrame

\* line 63: x_32 += x_32_avg
AddAvg ==
    /\ pc = "L25_26" /\ pcC = "L63"
    /\ AssignInPlace(IAdd(heap[env.x_32], heap[env.x_32_avg]), "x_32")
    /\ pcC' = "L64"
    /\ UNCHANGED tracked
    /\ CtxFrame

\* line 64: x_32 = self.conv_32(x_32)
Conv32 ==
    /\ pc = "L25_26" /\ pcC = "L64"
    /\ AssignNew(conv1x1("conv_32", net.context_path.channels[2],
                         net.context_path.cout, heap[env.x_32]),
                 "conv32", "x_32")
    /\ pcC' = "L65"
    /\ UNCHANGED tracked
    /\ CtxFrame

\* line 65: x_32 = F.interpolate(x_32, scale_factor=2, ...)
Up32 ==
    /\ pc = "L25_26" /\ pcC = "L65"
    /\ AssignNew(Ok(InterpolateScale2(heap[env.x_32])), "up32", "x_32")
    /\ pcC' = "L67"
    /\ UNCHANGED tracked
    /\ CtxFrame

\* line 67: x_16 = self.arm_16(x_16)
Arm16 ==
    /\ pc = "L25_26" /\ pcC = "L67"
    /\ AssignNew(ARMForward("arm_16", net.context_path.channels[1],
                            heap[env.x_16], training), "arm16", "x_16")
    /\ pcC' = "L68"
    /\ Track("arm_16", Ok(heap[env.x_16]))
    /\ CtxFrame

\* line 68: x_16 = self.conv_16(x_16)
Conv16 ==
    /\ pc = "L25_26" /\ pcC = "L68"
    /\ AssignNew(conv1x1("conv_16", net.context_path.channels[1],
                         net.context_path.cout, heap[env.x_16]),
                 "conv16", "x_16")
    /\ pcC' = "L69"
    /\ UNCHANGED tracked
    /\ CtxFrame

\* line 69: x_16 += x_32
Add32 ==
    /\ pc = "L25_26" /\ pcC = "L69"
    /\ AssignInPlace(IAdd(heap[env.x_16], heap[env.x_32]), "x_16")
    /\ pcC' = "L70"
    /\ UNCHANGED tracked
    /\ CtxFrame

\* lines 70-72: x_16 = F.interpolate(x_16, scale_factor=2, ...); return x_16
Up16 ==
    /\ pc = "L25_26" /\ pcC = "L70"
    /\ AssignNew(Ok(InterpolateScale2(heap[env.x_16])), "up16", "x_16")
    /\ pcC' = "ret"
    /\ UNCHANGED tracked
    /\ CtxFrame

\* line 26, x_c = self.context_path(x): the next statement of ContextPath.forward
ContextStep ==
    \/ Backbone
    \/ Pool32
    \/ Arm32
    \/ AddAvg
    \/ Conv32
    \/ Up32
    \/ Arm16
    \/ Conv16
    \/ Add32
    \/ Up16

\* line 27: x = self.ffm(x_s, x_c), with x_s and x_c what the branches returned
Fuse ==
    /\ pc = "L25_26" /\ pcS = "ret" /\ pcC = "ret"
    /\ LET x_s == heap[env.sp]
           x_c == heap[env.x_16]
           r == FFMForward(net.ffm, x_s, x_c, training) IN
         /\ cat' = <<x_s.shape, x_c.shape>>
         /\ IF r.exc = "none"
            THEN /\ heap' = [heap EXCEPT !["ffm"] = r.t]
                 /\ env' = [env EXCEPT !.x_s = env.sp, !.x_c = env.x_16,
                                       !.x = "ffm"]
                 /\ pc' = "L28"
                 /\ exc' = exc
            ELSE /\ Raised(r.exc)
                 /\ UNCHANGED <<heap, env>>
    /\ Track("ffm", Cat(heap[env.sp], heap[env.x_16]))
    /\ UNCHANGED <<args, net, training, hubCalls, pcS, pcC, numVars>>

\* line 28: x = self.seg_head(x)
SegHeadStep ==
    /\ pc = "L28"
    /\ LET r == SegHeadForward(net.seg_head, heap[env.x], training) IN
         IF r.exc = "none"
         THEN /\ heap' = [heap EXCEPT !["head"] = r.t]
              /\ env' = [env EXCEPT !.x = "head"]
              /\ pc' = "L29"
              /\ exc' = exc
         ELSE /\ Raised(r.exc)
              /\ UNCHANGED <<heap, env>>
    /\ Track("seg_head", Ok(heap[env.x]))
    /\ UNCHANGED <<args, net, training, hubCalls, pcS, pcC, cat, numVars>>

\* lines 29-31: x = F.interpolate(x, size, ...); return x
Resize ==
    /\ pc = "L29"
    /\ heap' = [heap EXCEPT !["out"] = InterpolateSize(heap[env.x], env.size)]
    /\ env' = [env EXCEPT !.x = "out"]
    /\ pc' = "done"
    /\ UNCHANGED <<args, net, training, exc, hubCalls, pcS, pcC, tracked,
                   cat, numVars>>

\* construction, then one forward call in the order the code runs it:
\* spatial_path(x) returns before context_path(x) starts
Next ==
    \/ NewSpatialPath
    \/ NewContextPath
    \/ NewFFM
    \/ NewSegHead
    \/ Eval
    \/ Forward
    \/ SpatialStep
    \/ (pcS = "ret" /\ ContextStep)
    \/ Fuse
    \/ SegHeadStep
    \/ Resize

Spec == Init /\ [][Next]_vars

\* the same with the statements of the two branches interleaved freely
NextPar ==
    \/ NewSpatialPath
    \/ NewContextPath
    \/ NewFFM
    \/ NewSegHead
    \/ Eval
    \/ Forward
    \/ SpatialStep
    \/ ContextStep
    \/ Fuse
    \/ SegHeadStep
    \/ Resize

SpecPar == Init /\ [][NextPar]_vars

-----------------------------------------------------------------------------
(* The two attention modules on small tensors.  A value is an integer in   *)
(* units of 1/Unit (fixed point); a tensor is its shape and its elements.  *)

\* the index set of a tensor of shape sh
NIdx(sh) == (1..sh[1]) \X (1..sh[2]) \X (1..sh[3]) \X (1..sh[4])

NoNum == [shape |-> <<>>, data |-> <<>>]

RECURSIVE SumSeq(_)
SumSeq(s) == IF s = <<>> THEN 0 ELSE s[1] + SumSeq(Tail(s))

\* the product of two fixed-point values
FxMul(a, b) == (a * b) \div Unit

\* nn.AdaptiveAvgPool2d(1): the mean over the spatial positions
NumPool(t) ==
    LET h == t.shape[3]
        w == t.shape[4]
        sh == <<t.shape[1], t.shape[2], 1, 1>> IN
      [ shape |-> sh,
        data |-> [ i \in NIdx(sh) |->
                     SumSeq([ k \in 1..(h * w) |->
                                t.data[<<i[1], i[2], ((k - 1) \div w) + 1,
                                         ((k - 1) % w) + 1>>] ])
                     \div (h * w) ] ]

\* a.expand_as(b): the axes of size 1 in a are repeated
NumExpandAs(a, b) ==
    [ shape |-> b.shape,
      data |-> [ i \in NIdx(b.shape) |->
                   a.data[<<i[1], i[2],
                            IF a.shape[3] = 1 THEN 1 ELSE i[3],
                            IF a.shape[4] = 1 THEN 1 ELSE i[4]>>] ] ]

\* the weight of a convolution from output channel co to input channel ci
\* at tap (di, dj) of a k x k kernel: w.diag where the channels correspond,
\* w.off elsewhere; at the centre tap only, or at every tap (w.spread)
Weight(w, k, cout, co, ci, di, dj) ==
    IF w.spread \/ (di = (k - 1) \div 2 /\ dj = (k - 1) \div 2)
    THEN IF co = ((ci - 1) % cout) + 1 THEN w.diag ELSE w.off
    ELSE 0

\* the input of a convolution read with zero padding
Padded(t, b, c, i, j) ==
    IF i >= 1 /\ i <= t.shape[3] /\ j >= 1 /\ j <= t.shape[4]
    THEN t.data[<<b, c, i, j>>]
    ELSE 0

\* nn.Conv2d(cin, cout, k, stride 1, padding (k - 1) // 2, bias=False)
NumConv2d(w, k, cout, t) ==
    LET cin == t.shape[2]
        p == (k - 1) \div 2
        sh == <<t.shape[1], cout, t.shape[3], t.shape[4]>> IN
      [ shape |-> sh,
        data |-> [ i \in NIdx(sh) |->
                     SumSeq([ n \in 1..(cin * k * k) |->
                       LET ci == ((n - 1) \div (k * k)) + 1
                           di == ((n - 1) % (k * k)) \div k
                           dj == (n - 1) % k IN
                         Weight(w, k, cout, i[2], ci, di, dj)
                         * Padded(t, i[1], ci, i[3] + di - p, i[4] + dj - p) ])
                     \div Unit ] ]

\* float32 sigmoid is exactly 1.0 from SatHigh on (1 - sigmoid(v) is below
\* half an ulp) and exactly 0.0 up to -SatLow (below the smallest subnormal)
SatHigh == 18

SatLow == 104

\* a gate strictly inside (0, 1) for pre-activations between the two
Sigmoid(v) ==
    IF v >= SatHigh * Unit THEN Unit
    ELSE IF v <= - SatLow * Unit THEN 0
    ELSE LET y == (Unit \div 2) + (v \div 4) IN
           IF y < 1 THEN 1 ELSE IF y > Unit - 1 THEN Unit - 1 ELSE y

ReLU(v) == IF v > 0 THEN v ELSE 0

Activation(act_type, v) ==
    IF act_type = "sigmoid" THEN Sigmoid(v)
    ELSE IF act_type = "relu" THEN ReLU(v)
    ELSE v

\* element-wise application of an activation
NumAct(act_type, t) ==
    [ shape |-> t.shape,
      data |-> [ i \in NIdx(t.shape) |-> Activation(act_type, t.data[i]) ] ]

\* nn.BatchNorm2d as the affine map it applies to each element of a channel
NumBatchNorm(bn, t) ==
    [ shape |-> t.shape,
      data |-> [ i \in NIdx(t.shape) |-> FxMul(bn.scale, t.data[i]) + bn.shift ] ]

\* modules.ConvBNAct(cin, cout, k, act_type=...)
NumConvBNAct(w, bn, k, cout, act_type, t) ==
    NumAct(act_type, NumBatchNorm(bn, NumConv2d(w, k, cout, t)))

\* a * b, element by element
NumMul(a, b) ==
    [ shape |-> a.shape,
      data |-> [ i \in NIdx(a.shape) |-> FxMul(a.data[i], b.data[i]) ] ]

\* a + b, element by element
NumAdd(a, b) ==
    [ shape |-> a.shape,
      data |-> [ i \in NIdx(a.shape) |-> a.data[i] + b.data[i] ] ]

\* torch.cat([a, b], dim=1)
NumCat(a, b) ==
    LET sh == <<a.shape[1], a.shape[2] + b.shape[2], a.shape[3], a.shape[4]>> IN
      [ shape |-> sh,
        data |-> [ i \in NIdx(sh) |->
                     IF i[2] <= a.shape[2]
                     THEN a.data[i]
                     ELSE b.data[<<i[1], i[2] - a.shape[2], i[3], i[4]>>] ] ]

\* the input tensors tried: all ones, all zeros, all 104.0, and one that
\* differs by sample, channel and position (with negative elements)
InputKinds == { "ones", "zeros", "large", "ramp" }

Input(kind, sh) ==
    [ shape |-> sh,
      data |-> [ i \in NIdx(sh) |->
                   IF kind = "ones" THEN Unit
                   ELSE IF kind = "zeros" THEN 0
                   ELSE IF kind = "large" THEN SatLow * Unit
                   ELSE Unit * (i[3] - i[4] + i[2] - i[1]) + 1 ] ]

\* weights tried: -104.0, 0 and 1.0
WeightVals == { - SatLow * Unit, 0, Unit }

\* BatchNorm shifts tried: -104.0, 0 and 18.0
ShiftVals == { - SatLow * Unit, 0, SatHigh * Unit }

NumBatches == { 1, 2 }

NumChans == { 1, 2 }

NoLocals ==
    [ cat |-> NoNum, y |-> NoNum, pool |-> NoNum, exp |-> NoNum,
      gate |-> NoNum, prod |-> NoNum, out |-> NoNum ]

\* construction and forward at rest
ShapeIdle ==
    /\ pc = "idle"
    /\ args = [ num_class |-> 1, n_channel |-> 3, backbone_type |-> resnet18 ]
    /\ net = [ spatial_path |-> NoModule, context_path |-> NoModule,
               ffm |-> NoModule, seg_head |-> NoModule ]
    /\ training = FALSE
    /\ exc = "none"
    /\ hubCalls = 0
    /\ heap = [ c \in Cells |-> NoTensor ]
    /\ env = EmptyEnv
    /\ pcS = "idle"
    /\ pcC = "idle"
    /\ tracked = [ m \in BNModules |-> 0 ]
    /\ cat = <<>>

\* an AttentionRefinementModule(c) with its weights, called on x
InitArm ==
    /\ nmod = "arm"
    /\ npc = "L82"
    /\ \E b \in NumBatches, c \in NumChans, h \in 1..MaxSide, w \in 1..MaxSide,
          kind \in InputKinds :
         nin = [ x |-> Input(kind, <<b, c, h, w>>) ]
    /\ \E d \in WeightVals, o \in WeightVals, sh \in ShiftVals :
         nw = [ conv |-> [diag |-> d, off |-> o, spread |-> FALSE],
                bn |-> [scale |-> Unit, shift |-> sh] ]
    /\ nt = NoLocals

\* a FeatureFusionModule(c1 + c2, cout, 'relu') with its weights, called on
\* x_low of c1 channels and x_high of c2 channels
InitFfm ==
    /\ nmod = "ffm"
    /\ npc = "L103"
    /\ \E b \in NumBatches, c2 \in NumChans, h \in 1..MaxSide, w \in 1..MaxSide,
          k1 \in { "ones", "large", "ramp" }, k2 \in { "ones", "ramp" } :
         nin = [ x_low |-> Input(k1, <<b, 1, h, w>>),
                 x_high |-> Input(k2, <<b, c2, h, w>>) ]
    /\ \E co \in NumChans, d1 \in { Unit, -Unit }, o1 \in { 0, Unit },
          sp \in BOOLEAN, da \in WeightVals, oa \in { 0, Unit },
          db \in WeightVals :
         nw = [ cout |-> co,
                conv1 |-> [diag |-> d1, off |-> o1, spread |-> sp],
                bn |-> [scale |-> Unit, shift |-> 0],
                conv2a |-> [diag |-> da, off |-> oa, spread |-> FALSE],
                conv2b |-> [diag |-> db, off |-> 0, spread |-> FALSE] ]
    /\ nt = NoLocals

InitNum ==
    /\ ShapeIdle
    /\ (InitArm \/ InitFfm)

\* what a statement of the two modules leaves alone
NumFrame == UNCHANGED <<shapeVars, nmod, nw, nin>>

\* line 82 left out: the gate is computed from x itself
ArmPool_Skipped ==
    /\ nmod = "arm" /\ npc = "L82"
    /\ nt' = [nt EXCEPT !.pool = nin.x]
    /\ npc' = "L83"
    /\ NumFrame

\* line 82: x_pool = self.pool(x)
ArmPool ==
    /\ nmod = "arm" /\ npc = "L82"
    /\ nt' = [nt EXCEPT !.pool = NumPool(nin.x)]
    /\ npc' = "L83"
    /\ NumFrame

\* line 83: x_pool = x_pool.expand_as(x)
ArmExpand ==
    /\ nmod = "arm" /\ npc = "L83"
    /\ nt' = [nt EXCEPT !.exp = NumExpandAs(nt.pool, nin.x)]
    /\ npc' = "L84"
    /\ NumFrame

\* line 84: x_pool = self.conv(x_pool), ConvBNAct(c, c, 1, act_type='sigmoid')
ArmConv ==
    /\ nmod = "arm" /\ npc = "L84"
    /\ nt' = [nt EXCEPT !.gate =
                NumConvBNAct(nw.conv, nw.bn, 1, nin.x.shape[2], "sigmoid", nt.exp)]
    /\ npc' = "L85"
    /\ NumFrame

\* lines 85-87: x = x * x_pool; return x
ArmMul ==
    /\ nmod = "arm" /\ npc = "L85"
    /\ nt' = [nt EXCEPT !.out = NumMul(nin.x, nt.gate)]
    /\ npc' = "done"
    /\ NumFrame

\* line 103: x = torch.cat([x_low, x_high], dim=1)
FfmCat ==
    /\ nmod = "ffm" /\ npc = "L103"
    /\ nt' = [nt EXCEPT !.cat = NumCat(nin.x_low, nin.x_high)]
    /\ npc' = "L104"
    /\ NumFrame

\* line 104: x = self.conv1(x), ConvBNAct(in_channels, out_channels, 3)
FfmConv1 ==
    /\ nmod = "ffm" /\ npc = "L104"
    /\ nt' = [nt EXCEPT !.y =
                NumConvBNAct(nw.conv1, nw.bn, 3, nw.cout, "relu", nt.cat)]
    /\ npc' = "L106"
    /\ NumFrame

\* line 106: x_pool = self.pool(x)
FfmPool ==
    /\ nmod = "ffm" /\ npc = "L106"
    /\ nt' = [nt EXCEPT !.pool = NumPool(nt.y)]
    /\ npc' = "L107"
    /\ NumFrame

\* line 107: x_pool = x_pool.expand_as(x)
FfmExpand ==
    /\ nmod = "ffm" /\ npc = "L107"
    /\ nt' = [nt EXCEPT !.exp = NumExpandAs(nt.pool, nt.y)]
    /\ npc' = "L108"
    /\ NumFrame

\* line 108: x_pool = self.conv2(x_pool): conv1x1, ReLU, conv1x1, Sigmoid
FfmConv2 ==
    /\ nmod = "ffm" /\ npc = "L108"
    /\ nt' = [nt EXCEPT !.gate =
                NumAct("sigmoid",
                  NumConv2d(nw.conv2b, 1, nw.cout,
                    NumAct("relu", NumConv2d(nw.conv2a, 1, nw.cout, nt.exp))))]
    /\ npc' = "L110"
    /\ NumFrame

\* line 110: x_pool = x * x_pool
FfmMul ==
    /\ nmod = "ffm" /\ npc = "L110"
    /\ nt' = [nt EXCEPT !.prod = NumMul(nt.y, nt.gate)]
    /\ npc' = "L111"
    /\ NumFrame

\* line 111 without the residual: x = x_pool
FfmAdd_NoResidual ==
    /\ nmod = "ffm" /\ npc = "L111"
    /\ nt' = [nt EXCEPT !.out = nt.prod]
    /\ npc' = "done"
    /\ NumFrame

\* lines 111-113: x = x + x_pool; return x
FfmAdd ==
    /\ nmod = "ffm" /\ npc = "L111"
    /\ nt' = [nt EXCEPT !.out = NumAdd(nt.y, nt.prod)]
    /\ npc' = "done"
    /\ NumFrame

NextNum ==
    \/ ArmPool
    \/ ArmExpand
    \/ ArmConv
    \/ ArmMul
    \/ FfmCat
    \/ FfmConv1
    \/ FfmPool
    \/ FfmExpand
    \/ FfmConv2
    \/ FfmMul
    \/ FfmAdd

SpecNum == InitNum /\ [][NextNum]_vars

-----------------------------------------------------------------------------
(* Properties of construction.                                             *)

FiveNames == { resnet18, resnet34, resnet50, resnet101, resnet152 }

ConstructionOver == pc \notin { "L18", "L19" }

\* C2: a backbone_type that contains 'resnet' and is not one of the five
\* supported identifiers ends construction with a ValueError, with no
\* torchvision network instantiated and no forward call ever started; and
\* construction gets past ContextPath only for the five identifiers.
C2_UnsupportedResnetRaisesValueError ==
    /\ ( Contains(LitResnet, args.backbone_type)
         /\ args.backbone_type \notin FiveNames )
       => /\ ConstructionOver => (pc = "raised" /\ exc = "ValueError")
          /\ hubCalls = 0
          /\ heap["in"] = NoTensor
    /\ pc \in { "L20", "L21", "built" } => args.backbone_type \in FiveNames

C2_Witness ==
    /\ pc = "raised"
    /\ exc = "ValueError"
    /\ args.backbone_type = <<"r","e","s","n","e","t","9">>
    /\ hubCalls = 0

\* C3: a backbone_type without the substring 'resnet' ends construction
\* with a NotImplementedError: never a ValueError, never a built model.
C3_OtherFamilyRaisesNotImplemented ==
    ~ Contains(LitResnet, args.backbone_type)
    => /\ ConstructionOver => (pc = "raised" /\ exc = "NotImplementedError")
       /\ ~ net.context_path.built
       /\ hubCalls = 0

C3_Witness ==
    /\ pc = "raised"
    /\ exc = "NotImplementedError"
    /\ args.backbone_type = <<"v","g","g","1","6">>

\* C6: for every backbone that is built, the channel pair chosen by the
\* substring test is the (layer3, layer4) channel pair of the instantiated
\* network and of the maps the backbone returns; ContextPath returns 256
\* channels for every backbone; torch.cat in the fusion module sees
\* 128 + 256 = 384 channels, the fusion module's in_channels.
C6_ChannelWiring ==
    /\ net.context_path.built =>
         /\ net.context_path.channels =
              <<net.context_path.backbone.layer3, net.context_path.backbone.layer4>>
         /\ net.context_path.channels =
              IF args.backbone_type \in { resnet18, resnet34 }
              THEN <<256, 512>> ELSE <<1024, 2048>>
    /\ heap["bb16"] # NoTensor =>
         /\ heap["bb16"].shape[2] = net.context_path.channels[1]
         /\ heap["bb32"].shape[2] = net.context_path.channels[2]
    /\ pcC = "ret" => heap[env.x_16].shape[2] = 256
    /\ cat # <<>> =>
         /\ cat[1][2] = 128
         /\ cat[2][2] = 256
         /\ cat[1][2] + cat[2][2] = 384
         /\ cat[1][2] + cat[2][2] = net.ffm.cin

C6_Witness ==
    /\ pc = "done"
    /\ args.backbone_type = resnet101
    /\ cat # <<>>
    /\ net.context_path.channels = <<1024, 2048>>

-----------------------------------------------------------------------------
(* Properties of the shapes in one forward call.                           *)

Called == heap["in"] # NoTensor

InShape == heap["in"].shape

Mult32(n) == n > 0 /\ n % 32 = 0

\* every BatchNorm layer sees more than one value per channel, or none
\* computes batch statistics
EnoughForBatchNorm ==
    ~ training \/ InShape[1] * (InShape[3] \div 32) * (InShape[4] \div 32) > 1

SpatialOf(shape) == <<shape[3], shape[4]>>

C4_EverySizeAligned ==
    /\ pcC = "L69" =>
         SpatialOf(heap[env.x_16].shape) = SpatialOf(heap[env.x_32].shape)
    /\ cat # <<>> => SpatialOf(cat[1]) = SpatialOf(cat[2])

\* C4, amended: for input height and width that are multiples of 32, the
\* upsampled 1/32 map has the spatial size of the 1/16 map it is added to,
\* and both tensors handed to the fusion module are at exactly 1/8 of the
\* input height and width.
C4_BranchesAligned ==
    ( Called /\ Mult32(InShape[3]) /\ Mult32(InShape[4]) )
    => /\ pcC = "L69" =>
            /\ SpatialOf(heap[env.x_16].shape) = SpatialOf(heap[env.x_32].shape)
            /\ 16 * heap[env.x_16].shape[3] = InShape[3]
            /\ 16 * heap[env.x_16].shape[4] = InShape[4]
       /\ pcS = "ret" =>
            /\ 8 * heap[env.sp].shape[3] = InShape[3]
            /\ 8 * heap[env.sp].shape[4] = InShape[4]
       /\ pcC = "ret" =>
            /\ 8 * heap[env.x_16].shape[3] = InShape[3]
            /\ 8 * heap[env.x_16].shape[4] = InShape[4]
       /\ cat # <<>> =>
            /\ SpatialOf(cat[1]) = SpatialOf(cat[2])
            /\ 8 * cat[1][3] = InShape[3]
            /\ 8 * cat[1][4] = InShape[4]

C4_Witness ==
    /\ cat # <<>>
    /\ InShape[3] = 64
    /\ InShape[4] = 32
    /\ cat[1][3] = 8
    /\ cat[2][4] = 4

\* C5: a model built with n_channel = n takes an input of n channels to an
\* output of shape (B, num_class, H, W) (H, W multiples of 32, enough
\* values for batch normalisation).
C5_AnyChannelCount ==
    ( Called /\ InShape[2] = args.n_channel
      /\ Mult32(InShape[3]) /\ Mult32(InShape[4]) /\ EnoughForBatchNorm )
    => /\ pc # "raised"
       /\ pc = "done" =>
            heap["out"].shape =
              <<InShape[1], args.num_class, InShape[3], InShape[4]>>

-----------------------------------------------------------------------------
(* Properties of the values and of the storage in one forward call.        *)

\* the term f(a)
Ap(f, a) == <<f, a>>

\* the backbone's 1/16 and 1/32 maps of the input x
X16 == Ap("layer3", Ap("layer2", Ap("layer1", Ap("maxpool", Ap("conv1", <<"x">>)))))

X32 == Ap("layer4", X16)

\* ARM(v) = v * gate(pool(v))
ArmOf(name, v) == <<"mul", v, Ap(name, Ap("pool", v))>>

\* up2( conv_16(ARM_16(x16)) + up2( conv_32( ARM_32(x32) + pool(x32) ) ) )
ContextValue ==
    Ap("up2",
       <<"add",
         Ap("conv_16", ArmOf("arm_16", X16)),
         Ap("up2", Ap("conv_32", <<"add", ArmOf("arm_32", X32), Ap("pool", X32)>>))
       >>)

\* the three stride-2 blocks applied to x
SpatialValue ==
    Ap("spatial_path.2", Ap("spatial_path.1", Ap("spatial_path.0", <<"x">>)))

\* C9: ContextPath.forward returns ContextValue; the pooled tensor is the
\* pool of the backbone's un-gated 1/32 map and keeps that value to the end
\* of the call, and so do the two tensors the backbone returned.
C9_ContextPathValue ==
    /\ heap["bb32"] # NoTensor =>
         /\ heap["bb32"].val = X32
         /\ heap["bb16"].val = X16
    /\ heap["avg"] # NoTensor => heap["avg"].val = Ap("pool", X32)
    /\ (pcC = "ret" /\ pc # "raised") => heap[env.x_16].val = ContextValue

C9_Witness ==
    /\ pc = "done"
    /\ heap[env.x_c].val = ContextValue
    /\ heap["avg"].val = Ap("pool", X32)
    /\ heap["arm32"].val = <<"add", ArmOf("arm_32", X32), Ap("pool", X32)>>

\* C7: with the statements of the two branches interleaved in any order,
\* the input tensor is never written, every tensor of SpatialPath keeps
\* the value SpatialPath gave it, the two branches return the same pair
\* of values as in program order, and neither branch writes the BatchNorm
\* buffers of the other's modules.
C7_BranchesIndependent ==
    /\ Called => ( heap["in"].val = <<"x">>
                   /\ SpatialOf(heap["in"].shape) = env.size )
    /\ heap["sp0"] # NoTensor => heap["sp0"].val = Ap("spatial_path.0", <<"x">>)
    /\ heap["sp1"] # NoTensor =>
         heap["sp1"].val = Ap("spatial_path.1", Ap("spatial_path.0", <<"x">>))
    /\ heap["bb32"] # NoTensor =>
         /\ heap["bb32"].val = X32
         /\ heap["bb16"].val = X16
    /\ (pcS = "ret" /\ pc # "raised") => heap[env.sp].val = SpatialValue
    /\ (pcC = "ret" /\ pc # "raised") => heap[env.x_16].val = ContextValue
    /\ pc \in { "L28", "L29", "done" } =>
         /\ heap[env.x_s].val = SpatialValue
         /\ heap[env.x_c].val = ContextValue
    /\ pcS = "0" => tracked["spatial_path"] = 0
    /\ pcC = "L60" =>
         \A m \in { "backbone", "arm_32", "arm_16" } : tracked[m] = 0

\* ContextPath has returned while SpatialPath is between two of its layers
C7_Witness ==
    /\ pc = "L25_26"
    /\ pcC = "ret"
    /\ pcS = "1"
    /\ heap[env.x_16].val = ContextValue

-----------------------------------------------------------------------------
(* Properties of the attention modules' values.                            *)

ArmDone == nmod = "arm" /\ npc = "done"

FfmDone == nmod = "ffm" /\ npc = "done"

AllOnes(t) == \A i \in NIdx(t.shape) : t.data[i] = Unit

AllZero(t) == \A i \in NIdx(t.shape) : t.data[i] = 0

\* the gate has one value per (sample, channel)
SpatiallyConstant(t) ==
    \A i \in NIdx(t.shape) : t.data[i] = t.data[<<i[1], i[2], 1, 1>>]

\* C10 as stated: the gate of AttentionRefinementModule lies strictly
\* between 0 and 1.
C10_GateStrictlyInside ==
    ArmDone => \A i \in NIdx(nt.gate.shape) :
                 nt.gate.data[i] > 0 /\ nt.gate.data[i] < Unit

\* C10, amended: AttentionRefinementModule.forward returns a tensor of the
\* shape of its input, the input multiplied element-wise by a gate that
\* lies between 0 and 1 inclusive and has one value per (sample, channel);
\* for an all-ones input every output element is at most the input element.
C10_ArmGate ==
    ArmDone =>
      /\ nt.out.shape = nin.x.shape
      /\ nt.gate.shape = nin.x.shape
      /\ SpatiallyConstant(nt.gate)
      /\ \A i \in NIdx(nin.x.shape) :
           /\ nt.gate.data[i] >= 0
           /\ nt.gate.data[i] <= Unit
           /\ nt.out.data[i] = (nin.x.data[i] * nt.gate.data[i]) \div Unit
      /\ AllOnes(nin.x) =>
           \A i \in NIdx(nin.x.shape) : nt.out.data[i] <= nin.x.data[i]

C10_Witness ==
    /\ ArmDone
    /\ nin.x = Input("ones", <<2, 2, 2, 2>>)
    /\ \E i \in NIdx(nin.x.shape) :
         nt.out.data[i] > 0 /\ nt.out.data[i] < nin.x.data[i]

\* C8: FeatureFusionModule.forward returns y + y * g, with y the 3x3
\* conv-BN-act of the channel-wise concatenation of the two inputs and g
\* the gate computed from the global average pool of y; when g is the zero
\* tensor the output is y; the output has the inputs' batch and spatial
\* size and out_channels channels.
C8_FfmResidual ==
    FfmDone =>
      LET lo == nin.x_low
          hi == nin.x_high
          sh == <<lo.shape[1], nw.cout, lo.shape[3], lo.shape[4]>> IN
        /\ nt.cat.shape = <<lo.shape[1], lo.shape[2] + hi.shape[2],
                            lo.shape[3], lo.shape[4]>>
        /\ \A i \in NIdx(nt.cat.shape) :
             nt.cat.data[i] =
               IF i[2] <= lo.shape[2] THEN lo.data[i]
               ELSE hi.data[<<i[1], i[2] - lo.shape[2], i[3], i[4]>>]
        /\ nt.y = NumConvBNAct(nw.conv1, nw.bn, 3, nw.cout, "relu", nt.cat)
        /\ nt.gate =
             NumAct("sigmoid",
               NumConv2d(nw.conv2b, 1, nw.cout,
                 NumAct("relu",
                   NumConv2d(nw.conv2a, 1, nw.cout,
                             NumExpandAs(NumPool(nt.y), nt.y)))))
        /\ SpatiallyConstant(nt.gate)
        /\ nt.out.shape = sh
        /\ \A i \in NIdx(sh) :
             nt.out.data[i] =
               nt.y.data[i] + ((nt.y.data[i] * nt.gate.data[i]) \div Unit)
        /\ AllZero(nt.gate) => nt.out = nt.y

\* the gate is the zero tensor and y is not
C8_Witness ==
    /\ FfmDone
    /\ AllZero(nt.gate)
    /\ ~ AllZero(nt.y)
    /\ nt.out = nt.y
    /\ nt.y.shape = <<2, 2, 2, 2>>

=============================================================================
